---- MODULE Spec2Model ----
(***************************************************************************)
(* GoodSpa backend (src/index.js): the HTTP handlers for bookings,         *)
(* simulated payments and testimonials over a relational store.            *)
(*                                                                         *)
(* Strings are sequences of one-character strings.  A JavaScript value is  *)
(* a record [t, n, e, s]: t is the type tag, n/10^e the number (t = "num", *)
(* and n the truth value 0/1 for t = "bool"), s the characters of a        *)
(* string.  NaN has the tag "nan".                                         *)
(***************************************************************************)
EXTENDS Integers, Sequences, FiniteSets

\* ------------------------------------------------------------------ bounds
MaxId == 2
MaxTid == 1
MaxTimers == 1

\* --------------------------------------------------------------- JS values
Undef == [t |-> "undef", n |-> 0, e |-> 0, s |-> <<>>]
Null == [t |-> "null", n |-> 0, e |-> 0, s |-> <<>>]
NaN == [t |-> "nan", n |-> 0, e |-> 0, s |-> <<>>]
Num(k) == [t |-> "num", n |-> k, e |-> 0, s |-> <<>>]
Dec(k, d) == [t |-> "num", n |-> k, e |-> d, s |-> <<>>]
Str(q) == [t |-> "str", n |-> 0, e |-> 0, s |-> q]
Bool(b) == [t |-> "bool", n |-> IF b THEN 1 ELSE 0, e |-> 0, s |-> <<>>]

\* JavaScript truthiness: undefined, null, 0, NaN, "" and false are falsy.
Truthy(v) ==
    CASE v.t = "undef" -> FALSE
      [] v.t = "null" -> FALSE
      [] v.t = "nan" -> FALSE
      [] v.t = "num" -> v.n # 0
      [] v.t = "str" -> v.s # <<>>
      [] v.t = "bool" -> v.n = 1

Digits == {"0", "1", "2", "3", "4", "5", "6", "7", "8", "9"}

DigitVal(c) ==
    CASE c = "0" -> 0 [] c = "1" -> 1 [] c = "2" -> 2 [] c = "3" -> 3
      [] c = "4" -> 4 [] c = "5" -> 5 [] c = "6" -> 6 [] c = "7" -> 7
      [] c = "8" -> 8 [] c = "9" -> 9

DigitChar(d) ==
    CASE d = 0 -> "0" [] d = 1 -> "1" [] d = 2 -> "2" [] d = 3 -> "3"
      [] d = 4 -> "4" [] d = 5 -> "5" [] d = 6 -> "6" [] d = 7 -> "7"
      [] d = 8 -> "8" [] d = 9 -> "9"

RECURSIVE Pow10(_)
Pow10(k) == IF k = 0 THEN 1 ELSE 10 * Pow10(k - 1)

\* The value of a sequence of decimal digits (0 for the empty sequence).
RECURSIVE DigitsToNat(_)
DigitsToNat(ds) ==
    IF ds = <<>> THEN 0
    ELSE 10 * DigitsToNat(SubSeq(ds, 1, Len(ds) - 1)) + DigitVal(ds[Len(ds)])

RECURSIVE NatToDigits(_)
NatToDigits(k) ==
    IF k < 10 THEN <<DigitChar(k)>>
    ELSE NatToDigits(k \div 10) \o <<DigitChar(k % 10)>>

\* k written with exactly w digits (leading zeros), for a fraction part.
RECURSIVE PadDigits(_, _)
PadDigits(k, w) ==
    IF w = 0 THEN <<>> ELSE PadDigits(k \div 10, w - 1) \o <<DigitChar(k % 10)>>

\* The longest prefix of s made of decimal digits.
RECURSIVE LeadDigits(_)
LeadDigits(s) ==
    IF s = <<>> \/ Head(s) \notin Digits THEN <<>>
    ELSE <<Head(s)>> \o LeadDigits(Tail(s))

\* ds without its trailing zeros.
RECURSIVE TrimZeros(_)
TrimZeros(ds) ==
    IF ds # <<>> /\ ds[Len(ds)] = "0" THEN TrimZeros(SubSeq(ds, 1, Len(ds) - 1))
    ELSE ds

\* The JS number with integer digits ip and fraction digits fp.
MkNumber(ip, fp) ==
    LET f == TrimZeros(fp)
    IN Dec(DigitsToNat(ip \o f), Len(f))

\* String(v) for the values a request body can carry.
JsString(v) ==
    CASE v.t = "str" -> v.s
      [] v.t = "num" ->
            LET a == IF v.n < 0 THEN -v.n ELSE v.n
                sign == IF v.n < 0 THEN <<"-">> ELSE <<>>
                ip == NatToDigits(a \div Pow10(v.e))
                fp == PadDigits(a % Pow10(v.e), v.e)
            IN sign \o ip \o (IF v.e = 0 THEN <<>> ELSE <<".">> \o fp)
      [] v.t = "bool" ->
            IF v.n = 1 THEN <<"t", "r", "u", "e">> ELSE <<"f", "a", "l", "s", "e">>
      [] v.t = "null" -> <<"n", "u", "l", "l">>
      [] v.t = "nan" -> <<"N", "a", "N">>
      [] v.t = "undef" -> <<"u", "n", "d", "e", "f", "i", "n", "e", "d">>

\* s.replace(/[^0-9.]/g, ''): every character that is not a digit or '.' goes.
StripNonNumeric(s) == SelectSeq(s, LAMBDA c : c \in Digits \cup {"."})

\* How many characters of s the decimal literal at its start takes:
\* digits, then optionally '.' and digits.
LiteralLen(s) ==
    LET ip == LeadDigits(s)
        rest == SubSeq(s, Len(ip) + 1, Len(s))
    IN IF rest # <<>> /\ Head(rest) = "."
       THEN Len(ip) + 1 + Len(LeadDigits(Tail(rest)))
       ELSE Len(ip)

\* parseFloat on a string without sign, exponent or white space: the
\* longest decimal literal at the start, NaN when it holds no digit.
parseFloat(s) ==
    LET ip == LeadDigits(s)
        rest == SubSeq(s, Len(ip) + 1, Len(s))
        fp == IF rest # <<>> /\ Head(rest) = "." THEN LeadDigits(Tail(rest)) ELSE <<>>
    IN IF ip = <<>> /\ fp = <<>> THEN NaN ELSE MkNumber(ip, fp)

\* cleanPrice with the pattern /[^0-9]/g: the decimal point goes too.
cleanPriceNoPoint(price) ==
    parseFloat(SelectSeq(JsString(price), LAMBDA c : c \in Digits))

\* src/index.js:84
cleanPrice(price) == parseFloat(StripNonNumeric(JsString(price)))

\* ToNumber, as the relational operators apply it to an operand.  A string
\* converts when the whole of it is a decimal literal ("" converts to 0).
ToNumber(v) ==
    CASE v.t = "num" -> v
      [] v.t = "nan" -> NaN
      [] v.t = "undef" -> NaN
      [] v.t = "null" -> Num(0)
      [] v.t = "bool" -> Num(v.n)
      [] v.t = "str" ->
            IF v.s = <<>> THEN Num(0)
            ELSE IF LiteralLen(v.s) = Len(v.s) THEN parseFloat(v.s) ELSE NaN

\* a < b on JS values: false as soon as an operand converts to NaN.
JsLt(a, b) ==
    LET x == ToNumber(a)
        y == ToNumber(b)
    IN /\ x.t = "num"
       /\ y.t = "num"
       /\ x.n * Pow10(y.e) < y.n * Pow10(x.e)

\* s.replace('$', ''): the first '$' goes, the others stay.
RECURSIVE RemoveFirstDollar(_)
RemoveFirstDollar(s) ==
    IF s = <<>> THEN <<>>
    ELSE IF Head(s) = "$" THEN Tail(s)
    ELSE <<Head(s)>> \o RemoveFirstDollar(Tail(s))

\* ------------------------------------------------------------------- state
VARIABLES
    bookings,       \* the rows of table booking_spa12
    nextId,         \* the next value of booking_spa12's id sequence
    testimonials,   \* the rows of table testimonials
    nextTid,        \* the next value of testimonials' id sequence
    timers,         \* the setTimeout callbacks of /api/payments/initiate, oldest first
    last,           \* the request in hand: its body, the statements issued, the response
    posted          \* for each row of bookings, by id, the body of the POST that made it

vars == <<bookings, nextId, testimonials, nextTid, timers, last, posted>>

Completed == Str(<<"c", "o", "m", "p", "l", "e", "t", "e", "d">>)

\* --------------------------------------------------------- request inputs
Swedish == Str(<<"S", "w", "e", "d", "i", "s", "h">>)
Min60 == Str(<<"6", "0", "m">>)
Ann == Str(<<"A", "n", "n">>)
Phone == Str(<<"0", "1", "2">>)
Day1 == Str(<<"0", "1">>)
Mail == Str(<<"a", "@", "b">>)
Text == Str(<<"G", "o", "o", "d">>)

PriceInputs ==
    { Num(0),
      Str(<<"$", "1", ",", "2", "5", "0", ".", "5", "0">>),
      Str(<<"a", "b", "c">>) }

BookingBodies ==
    [ service : {Undef, Swedish},
      duration : {Str(<<>>), Min60},
      price : PriceInputs,
      name : {Null, Ann},
      phone : {Undef, Phone},
      datetime : {Undef, Day1} ]

\* The ids a request can name: those the sequence can hand out, and one more.
IdParams == { Str(NatToDigits(k)) : k \in 1..(MaxId + 1) }
TidParams == { Str(NatToDigits(k)) : k \in 1..(MaxTid + 1) }

InitiateBodies ==
    [ amount : {Undef, Num(50), Str(<<"$", "5", "0">>)},
      serviceName : {Undef, Swedish},
      bookingId : {Undef, Str(<<"1">>)} ]

ConfirmBodies ==
    [ bookingId : {Undef, Num(0)} \cup { Num(k) : k \in 1..(MaxId + 1) } \cup IdParams ]

RatingInputs == {Undef, Num(0), Num(1), Num(5), Num(6), Num(-1), Str(<<"a">>)}

TestimonialBodies ==
    [ reviewerName : {Undef, Ann},
      reviewerEmail : {Str(<<>>), Mail},
      reviewTitle : {Undef},
      reviewText : {Null, Text},
      rating : RatingInputs,
      genuineOpinion : {Undef, Bool(FALSE)} ]

\* ------------------------------------------------------------- the store
\* A parameter the store takes for an integer column: a whole number, or
\* text that reads as one.
IsIntegerParam(v) ==
    \/ v.t = "num" /\ v.e = 0
    \/ v.t = "str" /\ v.s # <<>> /\ LeadDigits(v.s) = v.s

\* WHERE id = $n: the store reads the parameter as a number.
IdMatches(row, param) == ToNumber(param) = Num(row.id)

\* ORDER BY col DESC: every order of the rows in which no row comes before
\* one with a greater value in column col.
OrderByDesc(rows, col) ==
    LET n == Cardinality(rows)
    IN { q \in [1..n -> rows] :
           /\ \A r \in rows : \E i \in 1..n : q[i] = r
           /\ \A i, j \in 1..n : i < j => ~JsLt(q[i][col], q[j][col]) }

\* What pool.query did with a statement: it raised, or it returned with
\* result.rowCount rows.
Raised == [raised |-> TRUE, rowCount |-> 0]
Returned(rowCount) == [raised |-> FALSE, rowCount |-> rowCount]

\* A statement handed to pool.query: its text, its parameters, the outcome.
Statement(sql, params, result) == [sql |-> sql, params |-> params, result |-> result]

\* What is known of a request once its handler has run: the body (or the
\* path parameter), the statements issued, and the response (status 0: none
\* sent yet).
Response(op, body, status, err, stmts, out) ==
    [op |-> op, body |-> body, status |-> status, err |-> err, stmts |-> stmts, out |-> out]

NoOut == <<>>

\* No request in hand.
Idle == Response("none", <<>>, 0, "", <<>>, NoOut)

\* A catch block that tries the statement once more before it answers.
StoreErrorRetry(op, body, err, sql, params) ==
    Response(op, body, 500, err,
             <<Statement(sql, params, Raised), Statement(sql, params, Raised)>>, NoOut)

\* catch (err) { console.error(...); res.status(500).json({ error }) }
StoreError(op, body, err, sql, params) ==
    Response(op, body, 500, err, <<Statement(sql, params, Raised)>>, NoOut)

Init ==
    /\ bookings = {}
    /\ nextId = 1
    /\ testimonials = {}
    /\ nextTid = 1
    /\ timers = <<>>
    /\ last = Idle
    /\ posted = <<>>

\* ------------------------------------------------------ booking handlers
\* GET /booking_spa12
ListBookings ==
    /\ last = Idle
    /\ \E fail \in BOOLEAN :
        LET sql == "SELECT * FROM booking_spa12 ORDER BY datetime DESC"
        IN IF fail
           THEN last' = StoreError("listBookings", <<>>,
                                   "Failed to retrieve bookings from the database.", sql, <<>>)
           ELSE \E rows \in OrderByDesc(bookings, "datetime") :
                    last' = Response("listBookings", <<>>, 200, "",
                                     <<Statement(sql, <<>>, Returned(Len(rows)))>>, rows)
    /\ UNCHANGED <<bookings, nextId, testimonials, nextTid, timers, posted>>

\* The required fields tested without phone.
BookingMissingNoPhone(b) ==
    \/ ~Truthy(b.service)
    \/ ~Truthy(b.duration)
    \/ ~Truthy(b.price)
    \/ ~Truthy(b.name)
    \/ ~Truthy(b.datetime)

BookingMissing(b) ==
    \/ ~Truthy(b.service)
    \/ ~Truthy(b.duration)
    \/ ~Truthy(b.price)
    \/ ~Truthy(b.name)
    \/ ~Truthy(b.phone)
    \/ ~Truthy(b.datetime)

\* The row INSERT INTO booking_spa12(service, duration, price, name, phone,
\* datetime) VALUES($1, ..., $6) RETURNING * makes of its parameters.
InsertedBooking(id, params) ==
    [ id |-> id, service |-> params[1], duration |-> params[2], price |-> params[3],
      name |-> params[4], phone |-> params[5], datetime |-> params[6],
      payment_status |-> Null ]

\* POST /booking_spa12
CreateBooking ==
    /\ last = Idle
    /\ \E b \in BookingBodies, fail \in BOOLEAN :
        IF BookingMissing(b)
        THEN /\ last' = Response("createBooking", b, 400,
                                 "All booking fields are required.", <<>>, NoOut)
             /\ UNCHANGED <<bookings, nextId, testimonials, nextTid, timers, posted>>
        ELSE LET sql == "INSERT INTO booking_spa12"
                 params == <<b.service, b.duration, cleanPrice(b.price),
                             b.name, b.phone, b.datetime>>
                 row == InsertedBooking(nextId, params)
             IN IF fail
                THEN /\ last' = StoreError("createBooking", b,
                                           "Failed to add booking to the database.", sql, params)
                     /\ UNCHANGED <<bookings, nextId, testimonials, nextTid, timers, posted>>
                ELSE /\ nextId <= MaxId
                     /\ bookings' = bookings \cup {row}
                     /\ nextId' = nextId + 1
                     /\ posted' = [i \in DOMAIN posted \cup {row.id} |->
                                     IF i = row.id THEN b ELSE posted[i]]
                     /\ last' = Response("createBooking", b, 201, "",
                                         <<Statement(sql, params, Returned(1))>>, row)
                     /\ UNCHANGED <<testimonials, nextTid, timers>>

\* A delete that answers 200 whatever result.rowCount is.
DeleteStatusAlways200(rowCount) == 200

\* if (result.rowCount === 0) 404, else 200
DeleteStatus(rowCount) == IF rowCount = 0 THEN 404 ELSE 200

\* DELETE /booking_spa12/:id
DeleteBooking ==
    /\ last = Idle
    /\ \E id \in IdParams, fail \in BOOLEAN :
        LET sql == "DELETE FROM booking_spa12 WHERE id = $1"
            hit == { r \in bookings : IdMatches(r, id) }
            gone == { r.id : r \in hit }
            rowCount == Cardinality(hit)
        IN IF fail
           THEN /\ last' = StoreError("deleteBooking", id,
                                      "Failed to delete booking from the database.",
                                      sql, <<id>>)
                /\ UNCHANGED <<bookings, nextId, testimonials, nextTid, timers, posted>>
           ELSE /\ bookings' = bookings \ hit
                /\ posted' = [i \in DOMAIN posted \ gone |-> posted[i]]
                /\ last' = Response("deleteBooking", id, DeleteStatus(rowCount),
                                    IF rowCount = 0 THEN "Booking not found." ELSE "",
                                    <<Statement(sql, <<id>>, Returned(rowCount))>>, NoOut)
                /\ UNCHANGED <<nextId, testimonials, nextTid, timers>>

\* ------------------------------------------------------ payment handlers
InitiateMissing(b) ==
    \/ ~Truthy(b.amount)
    \/ ~Truthy(b.serviceName)
    \/ ~Truthy(b.bookingId)

\* The 200 body the timer callback sends; transactionId is built from the
\* clock and a random number and is kept as its fixed prefix.
InitiateResult(b) ==
    [ message |-> "Payment initiation successful (simulated). Scan QR to complete.",
      qrCodeUrl |-> [amount |-> RemoveFirstDollar(b.amount.s),
                     bookingId |-> JsString(b.bookingId)],
      transactionId |-> "TXN",
      status |-> "pending" ]

\* POST /api/payments/initiate.  amount.replace is a method of strings only:
\* on any other truthy amount the handler throws before it sets the timer,
\* and the framework's error handler answers 500.
InitiatePayment ==
    /\ last = Idle
    /\ \E b \in InitiateBodies :
        IF InitiateMissing(b)
        THEN /\ last' = Response("initiatePayment", b, 400,
                                 "Payment amount, service name, and booking ID are required to initiate payment.",
                                 <<>>, NoOut)
             /\ UNCHANGED <<bookings, nextId, testimonials, nextTid, timers, posted>>
        ELSE IF b.amount.t # "str"
        THEN /\ last' = Response("initiatePayment", b, 500,
                                 "TypeError: amount.replace is not a function", <<>>, NoOut)
             /\ UNCHANGED <<bookings, nextId, testimonials, nextTid, timers, posted>>
        ELSE /\ Len(timers) < MaxTimers
             /\ timers' = Append(timers, [body |-> b, result |-> InitiateResult(b)])
             /\ last' = Response("initiatePayment", b, 0, "", <<>>, NoOut)
             /\ UNCHANGED <<bookings, nextId, testimonials, nextTid, posted>>

\* The setTimeout callback of /api/payments/initiate: equal delays expire in
\* the order they were set.
PaymentTimer ==
    /\ last = Idle
    /\ timers # <<>>
    /\ last' = Response("initiatePayment", Head(timers).body, 200, "", <<>>,
                        Head(timers).result)
    /\ timers' = Tail(timers)
    /\ UNCHANGED <<bookings, nextId, testimonials, nextTid, posted>>

\* The UPDATE without its WHERE clause.
UpdatePaymentStatusAll(rows, params) ==
    { [r EXCEPT !.payment_status = params[1]] : r \in rows }

\* UPDATE booking_spa12 SET payment_status = $1 WHERE id = $2: the table after it.
UpdatePaymentStatus(rows, params) ==
    { IF IdMatches(r, params[2]) THEN [r EXCEPT !.payment_status = params[1]] ELSE r :
        r \in rows }

\* A confirm that answers 200 whatever result.rowCount is.
ConfirmStatusAlways200(rowCount) == 200

\* if (result.rowCount === 0) 404, else 200
ConfirmStatus(rowCount) == IF rowCount = 0 THEN 404 ELSE 200

\* POST /api/payments/confirm
ConfirmPayment ==
    /\ last = Idle
    /\ \E b \in ConfirmBodies, fail \in BOOLEAN :
        IF ~Truthy(b.bookingId)
        THEN /\ last' = Response("confirmPayment", b, 400,
                                 "Booking ID is required to confirm payment.", <<>>, NoOut)
             /\ UNCHANGED <<bookings, nextId, testimonials, nextTid, timers, posted>>
        ELSE LET sql == "UPDATE booking_spa12 SET payment_status = $1 WHERE id = $2"
                 params == <<Completed, b.bookingId>>
                 rowCount == Cardinality({ r \in bookings : IdMatches(r, params[2]) })
             IN IF fail
                THEN /\ last' = StoreError("confirmPayment", b,
                                           "Failed to update payment status in the database.",
                                           sql, params)
                     /\ UNCHANGED <<bookings, nextId, testimonials, nextTid, timers, posted>>
                ELSE /\ bookings' = UpdatePaymentStatus(bookings, params)
                     /\ last' = Response("confirmPayment", b, ConfirmStatus(rowCount),
                                         IF rowCount = 0
                                         THEN "Booking not found for payment confirmation."
                                         ELSE "",
                                         <<Statement(sql, params, Returned(rowCount))>>, NoOut)
                     /\ UNCHANGED <<nextId, testimonials, nextTid, timers, posted>>

\* -------------------------------------------------- testimonial handlers
TestimonialMissing(b) ==
    \/ ~Truthy(b.reviewerName)
    \/ ~Truthy(b.reviewerEmail)
    \/ ~Truthy(b.reviewText)
    \/ ~Truthy(b.rating)
    \/ b.genuineOpinion = Undef

\* The range test with the upper limit off by one.
RatingOutOfRangeUpTo6(rating) == JsLt(rating, Num(1)) \/ JsLt(Num(6), rating)

\* rating < 1 || rating > 5
RatingOutOfRange(rating) == JsLt(rating, Num(1)) \/ JsLt(Num(5), rating)

\* The row INSERT INTO testimonials(reviewer_name, reviewer_email,
\* review_title, review_text, rating, genuine_opinion, created_at)
\* VALUES($1, ..., $6, NOW()) RETURNING * makes of its parameters; rating is
\* an integer column, and NOW() is read as the number of the insert (a later
\* insert reads a later time).
InsertedTestimonial(id, params) ==
    [ id |-> id, reviewer_name |-> params[1], reviewer_email |-> params[2],
      review_title |-> params[3], review_text |-> params[4],
      rating |-> ToNumber(params[5]), genuine_opinion |-> params[6],
      created_at |-> Num(id) ]

\* POST /api/testimonials
CreateTestimonial ==
    /\ last = Idle
    /\ \E b \in TestimonialBodies, fail \in BOOLEAN :
        IF TestimonialMissing(b)
        THEN /\ last' = Response("createTestimonial", b, 400,
                                 "All testimonial fields (except title) are required.",
                                 <<>>, NoOut)
             /\ UNCHANGED <<bookings, nextId, testimonials, nextTid, timers, posted>>
        ELSE IF RatingOutOfRange(b.rating)
        THEN /\ last' = Response("createTestimonial", b, 400,
                                 "Rating must be between 1 and 5.", <<>>, NoOut)
             /\ UNCHANGED <<bookings, nextId, testimonials, nextTid, timers, posted>>
        ELSE LET sql == "INSERT INTO testimonials"
                 params == <<b.reviewerName, b.reviewerEmail, b.reviewTitle,
                             b.reviewText, b.rating, b.genuineOpinion>>
                 row == InsertedTestimonial(nextTid, params)
             IN IF fail \/ ~IsIntegerParam(params[5])
                THEN /\ last' = StoreError("createTestimonial", b,
                                           "Failed to add testimonial to the database.",
                                           sql, params)
                     /\ UNCHANGED <<bookings, nextId, testimonials, nextTid, timers, posted>>
                ELSE /\ nextTid <= MaxTid
                     /\ testimonials' = testimonials \cup {row}
                     /\ nextTid' = nextTid + 1
                     /\ last' = Response("createTestimonial", b, 201, "",
                                         <<Statement(sql, params, Returned(1))>>, row)
                     /\ UNCHANGED <<bookings, nextId, timers, posted>>

\* GET /api/testimonials
ListTestimonials ==
    /\ last = Idle
    /\ \E fail \in BOOLEAN :
        LET sql == "SELECT * FROM testimonials ORDER BY created_at DESC"
        IN IF fail
           THEN last' = StoreError("listTestimonials", <<>>,
                                   "Failed to retrieve testimonials from the database.",
                                   sql, <<>>)
           ELSE \E rows \in OrderByDesc(testimonials, "created_at") :
                    last' = Response("listTestimonials", <<>>, 200, "",
                                     <<Statement(sql, <<>>, Returned(Len(rows)))>>, rows)
    /\ UNCHANGED <<bookings, nextId, testimonials, nextTid, timers, posted>>

\* DELETE /api/testimonials/:id
DeleteTestimonial ==
    /\ last = Idle
    /\ \E id \in TidParams, fail \in BOOLEAN :
        LET sql == "DELETE FROM testimonials WHERE id = $1"
            hit == { r \in testimonials : IdMatches(r, id) }
            rowCount == Cardinality(hit)
        IN IF fail
           THEN /\ last' = StoreError("deleteTestimonial", id,
                                      "Failed to delete testimonial from the database",
                                      sql, <<id>>)
                /\ UNCHANGED <<bookings, nextId, testimonials, nextTid, timers, posted>>
           ELSE /\ testimonials' = testimonials \ hit
                /\ last' = Response("deleteTestimonial", id,
                                    IF rowCount = 0 THEN 404 ELSE 200,
                                    IF rowCount = 0 THEN "Testimonial not found." ELSE "",
                                    <<Statement(sql, <<id>>, Returned(rowCount))>>, NoOut)
                /\ UNCHANGED <<bookings, nextId, nextTid, timers, posted>>

\* The request/response cycle of the request in hand ends.  The handlers
\* share nothing but the store, and each touches it in one statement, so
\* their runs are taken one at a time.
Finish ==
    /\ last # Idle
    /\ last' = Idle
    /\ UNCHANGED <<bookings, nextId, testimonials, nextTid, timers, posted>>

Next ==
    \/ ListBookings
    \/ CreateBooking
    \/ DeleteBooking
    \/ InitiatePayment
    \/ PaymentTimer
    \/ ConfirmPayment
    \/ CreateTestimonial
    \/ ListTestimonials
    \/ DeleteTestimonial
    \/ Finish

Spec == Init /\ [][Next]_vars

\* ============================================================== properties
FalsyValues == {Undef, Null, NaN, Num(0), Str(<<>>), Bool(FALSE)}

BookingFields == {"service", "duration", "price", "name", "phone", "datetime"}

\* pool.query raised for a statement of request l.
StoreRaised(l) == \E i \in 1..Len(l.stmts) : l.stmts[i].result.raised

\* The request value v names the id k: the number k or its decimal text.
NamesId(v, k) == v = Num(k) \/ v = Str(NatToDigits(k))

\* The number r lies in [1,5].
RatingIn1to5(r) == r.t = "num" /\ Pow10(r.e) <= r.n /\ r.n <= 5 * Pow10(r.e)

\* The required fields of a testimonial other than rating are supplied.
OthersValid(b) ==
    /\ b.reviewerName \notin FalsyValues
    /\ b.reviewerEmail \notin FalsyValues
    /\ b.reviewText \notin FalsyValues
    /\ b.genuineOpinion # Undef

\* C1: a POST /booking_spa12 in which one of the six required fields is
\* absent or falsy is answered 400, issues no store statement and leaves the
\* booking rows as they were.
C1_MissingFieldRejected ==
    [][ (/\ last'.op = "createBooking"
         /\ \E f \in BookingFields : last'.body[f] \in FalsyValues)
        => (/\ last'.status = 400
            /\ last'.stmts = <<>>
            /\ bookings' = bookings) ]_vars

C1_Witness ==
    /\ last.op = "createBooking"
    /\ last.body.phone \in FalsyValues
    /\ last.status = 400
    /\ bookings # {}

\* C2: with the other required fields valid and a store that does not
\* fail, a POST /api/testimonials is answered 201 and inserts exactly one row
\* when the rating lies in [1,5], and is answered 400 and inserts nothing
\* when it does not; every stored rating lies in [1,5].
C2_RatingAcceptedIffInRange ==
    [][ /\ (/\ last'.op = "createTestimonial"
            /\ OthersValid(last'.body)
            /\ ~StoreRaised(last'))
           => IF RatingIn1to5(last'.body.rating)
              THEN /\ last'.status = 201
                   /\ \E row \in testimonials' \ testimonials :
                        /\ testimonials' = testimonials \cup {row}
                        /\ row.rating = last'.body.rating
              ELSE /\ last'.status = 400
                   /\ testimonials' = testimonials
        /\ \A r \in testimonials' : RatingIn1to5(r.rating) ]_vars

C2_Witness ==
    /\ last.op = "createTestimonial"
    /\ last.body.rating = Num(5)
    /\ last.status = 201
    /\ \E r \in testimonials : r.rating = Num(5)

\* C3: a POST /api/testimonials whose other required fields are supplied
\* and whose rating is a number outside [1,5], 0 included, is answered 400
\* with the error 'Rating must be between 1 and 5.'.
C3_RangeErrorForEveryRatingOutside ==
    (/\ last.op = "createTestimonial"
     /\ OthersValid(last.body)
     /\ last.body.rating.t = "num"
     /\ ~RatingIn1to5(last.body.rating))
    => (/\ last.status = 400
        /\ last.err = "Rating must be between 1 and 5.")

\* C4: a booking's payment_status is unset or "completed"; it changes only
\* in a POST /api/payments/confirm that names the booking's id, and only
\* from unset to "completed".
C4_PaymentStatusOneWay ==
    [][ /\ \A r \in bookings' : r.payment_status \in {Null, Completed}
        /\ \A r \in bookings, q \in bookings' :
             (r.id = q.id /\ r.payment_status # q.payment_status)
             => (/\ last'.op = "confirmPayment"
                 /\ NamesId(last'.body.bookingId, r.id)
                 /\ r.payment_status = Null
                 /\ q.payment_status = Completed) ]_vars

C4_Witness ==
    /\ last.op = "deleteBooking"
    /\ last.status = 200
    /\ \E r \in bookings : r.payment_status = Completed

C6_DeleteById ==
    [][ /\ (last'.op = "deleteBooking" /\ ~StoreRaised(last'))
           => IF \E r \in bookings : NamesId(last'.body, r.id)
              THEN /\ last'.status = 200
                   /\ Cardinality(bookings \ bookings') = 1
                   /\ bookings' = { r \in bookings : ~NamesId(last'.body, r.id) }
              ELSE /\ last'.status = 404
                   /\ bookings' = bookings
        /\ (last'.op = "deleteTestimonial" /\ ~StoreRaised(last'))
           => IF \E r \in testimonials : NamesId(last'.body, r.id)
              THEN /\ last'.status = 200
                   /\ Cardinality(testimonials \ testimonials') = 1
                   /\ testimonials' = { r \in testimonials : ~NamesId(last'.body, r.id) }
              ELSE /\ last'.status = 404
                   /\ testimonials' = testimonials
        /\ \A r \in bookings' : (r.id >= nextId \/ \E q \in bookings : q.id = r.id)
        /\ \A r \in bookings' : r.id < nextId'
        /\ nextId' >= nextId
        /\ \A r \in testimonials' : (r.id >= nextTid \/ \E q \in testimonials : q.id = r.id)
        /\ \A r \in testimonials' : r.id < nextTid'
        /\ nextTid' >= nextTid ]_vars

\* A second DELETE of a booking id, with another booking still there.
C6_Witness ==
    /\ last.op = "deleteBooking"
    /\ last.status = 404
    /\ bookings # {}
    /\ \E k \in 1..(nextId - 1) : NamesId(last.body, k)

\* The one booking a GET lists after a single POST into an empty table.
ListsTheOnePosted ==
    /\ last.op = "listBookings"
    /\ last.status = 200
    /\ nextId = 2
    /\ Len(last.out) = 1

\* C7 as claimed: after a POST into an empty table, GET lists exactly that
\* booking, with a server-assigned id and every field, price included,
\* equal to the value submitted.
C7_RoundTripUnchanged ==
    ListsTheOnePosted
    => LET r == last.out[1]
           b == posted[r.id]
       IN /\ r.id >= 1
          /\ r.service = b.service
          /\ r.duration = b.duration
          /\ r.price = b.price
          /\ r.name = b.name
          /\ r.phone = b.phone
          /\ r.datetime = b.datetime

Price1250 == Str(<<"$", "1", ",", "2", "5", "0", ".", "5", "0">>)

\* The number a submitted price is kept as, for the prices a request of the
\* model carries: 1250.5 for "$1,250.50", not-a-number for "abc".
KeptPrice(p) ==
    CASE p = Price1250 -> Dec(12505, 1)
      [] p = Str(<<"a", "b", "c">>) -> NaN

\* C7, amended: after a POST into an empty table, GET lists exactly that
\* booking, with a server-assigned id, with service, duration, name, phone
\* and datetime equal to the values submitted, and with price the number
\* left after every character that is not a digit or '.' is stripped from
\* the submitted price.
C7_RoundTripNormalizedPrice ==
    ListsTheOnePosted
    => LET r == last.out[1]
           b == posted[r.id]
       IN /\ r.id >= 1
          /\ r.service = b.service
          /\ r.duration = b.duration
          /\ r.price = KeptPrice(b.price)
          /\ r.name = b.name
          /\ r.phone = b.phone
          /\ r.datetime = b.datetime

C7_Witness ==
    /\ ListsTheOnePosted
    /\ posted[last.out[1].id].price = Price1250
    /\ last.out[1].price = Dec(12505, 1)

\* C8: every booking row's price, and every price handed to the INSERT, is
\* a non-negative number and never not-a-number.
C8_PriceIsNonNegativeNumber ==
    /\ \A r \in bookings : r.price.t = "num" /\ r.price.n >= 0
    /\ (last.op = "createBooking" /\ last.stmts # <<>>)
       => (/\ last.stmts[1].params[3].t = "num"
           /\ last.stmts[1].params[3].n >= 0)

\* C9: a POST /api/payments/initiate with amount, serviceName and bookingId
\* all truthy, whatever their type, is waiting for its timer or answered 200
\* with status "pending", a transactionId and a qrCodeUrl; with one of them
\* missing it is answered 400; it issues no store statement.
C9_InitiateAnswered200 ==
    last.op = "initiatePayment"
    => /\ last.stmts = <<>>
       /\ IF \A f \in {"amount", "serviceName", "bookingId"} : last.body[f] \notin FalsyValues
          THEN /\ last.status \in {0, 200}
               /\ last.status = 200
                  => (/\ {"transactionId", "qrCodeUrl", "status"} \subseteq DOMAIN last.out
                      /\ last.out.status = "pending")
          ELSE last.status = 400

PersistingOps ==
    { "listBookings", "createBooking", "deleteBooking", "confirmPayment",
      "createTestimonial", "listTestimonials", "deleteTestimonial" }

\* C10: a handler issues at most one store statement: none when it rejects
\* the request with 400 and none in payment initiation, exactly one in every
\* other case; when the store raises the answer is 500 and the rows stay as
\* they were.
C10_OneStatementNoRetry ==
    [][ last'.op # "none"
        => (/\ Len(last'.stmts) <= 1
            /\ last'.status = 400 => last'.stmts = <<>>
            /\ last'.op = "initiatePayment" => last'.stmts = <<>>
            /\ (last'.op \in PersistingOps /\ last'.status # 400) => Len(last'.stmts) = 1
            /\ StoreRaised(last')
               => (/\ last'.status = 500
                   /\ bookings' = bookings
                   /\ testimonials' = testimonials)) ]_vars

C10_Witness ==
    /\ last.op = "confirmPayment"
    /\ last.status = 500
    /\ StoreRaised(last)
    /\ bookings # {}

====
